---- MODULE Spec2Model ----
(***************************************************************************)
(* StageInspector (src/src/index.js): a debugging overlay for a CreateJS    *)
(* stage.  The model holds the inspected display list (stage, nodes, their  *)
(* children and the fields the inspector reads), the inspector's own       *)
(* fields (_filters, _updateOnDraw, propFilters, nestColors, the children   *)
(* of _container, the 'drawstart' subscription, the click-to-dump          *)
(* listeners) and one action per public operation or host event.            *)
(***************************************************************************)
EXTENDS Integers, Sequences, FiniteSets, TLC

VARIABLES
  children,       \* display list: Stage and every scene node -> ordered children
  attrs,          \* per scene node: the fields the inspector reads
  overlay,        \* this._container.children: the annotation primitives
  uid,            \* the id the next display object constructed will take
  filters,        \* this._filters
  updateOnDraw,   \* this._updateOnDraw
  subscribed,     \* _updateDisplay is a 'drawstart' listener of the stage
  propFilters,    \* this.propFilters: the set of keys with a truthy value
  nestColors,     \* this.nestColors
  dumpListeners,  \* this._dumpListeners is set (truthy)
  listeners,      \* per event type: the inspector's capture listeners on the stage
  op,             \* the operation or host event that produced this state
  rebuilds,       \* number of _updateDisplay runs made by that operation
  showRun,        \* number of show() calls in a row with unchanged inputs
  result          \* what that operation returned / reported / stopped

vars == <<children, attrs, overlay, uid, filters, updateOnDraw, subscribed,
          propFilters, nestColors, dumpListeners, listeners, op, rebuilds, showRun,
          result>>

----------------------------------------------------------------------------
(* Bounds of the model *)

\* the host never puts more than this many scene nodes directly on the stage
MaxStageKids == 2

\* consecutive show() calls are counted up to this number
MaxShowRun == 2

\* a rebuild runs only while the ids it hands out stay below this number
MaxUid == 58

\* the same, where the searches and the dump are examined
MaxQueryUid == 106

\* longest filter array the matcher is tried on
MaxFilterLen == 2

----------------------------------------------------------------------------
(* The display list *)

\* the stage handed to the constructor (its createjs id)
Stage == 0

\* scene nodes (createjs ids of the display objects of the host application)
Nodes == {1, 2, 3, 4, 5}

\* id of this._container, created by the constructor
ContainerId == 6

\* name given to this._container
ContainerName == "si_ui_container"

\* the id the first display object constructed after the container takes
FirstUid == ContainerId + 1

\* "no value" where a bounds rectangle is expected: null / undefined
Null == "null"

\* "no value" where a display object is expected: null
NoNode == 0 - 1

\* a rectangle returned by getBounds / held in frameBounds
Rect == "rect"

\* getBounds raising an exception
Throws == "throws"

\* Object.keys(obj) of a display object, in enumeration order: whether the
\* key starts with '_' and whether its value is an object
Key(k, underscore, object) == [key |-> k, underscore |-> underscore, object |-> object]

OwnKeys ==
  << Key("id", FALSE, FALSE), Key("name", FALSE, FALSE), Key("parent", FALSE, TRUE),
     Key("scaleX", FALSE, FALSE), Key("scaleY", FALSE, FALSE),
     Key("x", FALSE, FALSE), Key("y", FALSE, FALSE), Key("_bounds", TRUE, FALSE) >>

Node(named, name, leaf, bounds, overrun) ==
  [named |-> named, name |-> name, leaf |-> leaf, bounds |-> bounds,
   overrun |-> overrun]

\* numbers are held in thousandths, the precision of toFixed(3): 5 is 5000
Unit == 1000

\* x, y, regX, regY, scaleX, scaleY of a display object and the rectangle
\* <<x, y, width, height>> its bounds lookup yields when it yields one
Geo(x, y, regX, regY, scaleX, scaleY, rect) ==
  <<x, y, regX, regY, scaleX, scaleY, rect>>

\* an enumerable number field the host application put on a display object
Field(k, v) == [key |-> k, underscore |-> FALSE, object |-> FALSE, value |-> v]

\* Scene A: 1 is a group without bounds holding 3, which holds 4; 2's
\* getBounds throws; 5 is not on the display list yet.
SceneAChildren ==
  [n \in {Stage} \cup Nodes |->
     CASE n = Stage -> <<1, 2>>
       [] n = 1 -> <<3>>
       [] n = 3 -> <<4>>
       [] OTHER -> <<>>]

SceneAAttrs ==
  [n \in Nodes |->
     CASE n = 1 -> Node(TRUE, "a", FALSE, Null, FALSE)
       [] n = 2 -> Node(FALSE, "", TRUE, Throws, FALSE)
       [] n = 3 -> Node(TRUE, "a", FALSE, Rect, FALSE)
       [] n = 4 -> Node(TRUE, "A", TRUE, Rect, FALSE)
       [] OTHER -> Node(TRUE, "b", TRUE, Rect, FALSE)]

\* Scene B: 1 has bounds and holds 2 (a movie clip whose currentFrame ran
\* off the end of frameBounds) and 3 (a group without bounds) holding 4;
\* 5 is an empty container not on the display list yet.
SceneBChildren ==
  [n \in {Stage} \cup Nodes |->
     CASE n = Stage -> <<1>>
       [] n = 1 -> <<2, 3>>
       [] n = 3 -> <<4>>
       [] OTHER -> <<>>]

SceneBAttrs ==
  [n \in Nodes |->
     CASE n = 1 -> Node(TRUE, "a", FALSE, Rect, FALSE)
       [] n = 2 -> Node(TRUE, "b", FALSE, Throws, TRUE)
       [] n = 3 -> Node(FALSE, "", FALSE, Null, FALSE)
       [] n = 4 -> Node(TRUE, "a", TRUE, Rect, FALSE)
       [] OTHER -> Node(TRUE, "A", FALSE, Null, FALSE)]

\* The transforms and bounds rectangles of the display objects, the same in
\* both scenes and never changed by an operation of the model: 1 sits at
\* (5,5) and is scaled 2 x 2, 3 is scaled 1 x 0.25, 4 sits at x = 2.5 with
\* its registration point at (1,1)
Geometry ==
  [n \in Nodes |->
     CASE n = 1 -> Geo(5000, 5000, 0, 0, 2000, 2000, <<0, 0, 40000, 30000>>)
       [] n = 2 -> Geo(0, 0, 0, 0, 1000, 1000, <<2000, 2000, 6000, 6000>>)
       [] n = 3 -> Geo(1000, 2000, 0, 0, 1000, 250, <<0, 0, 30000, 20000>>)
       [] n = 4 -> Geo(2500, 0, 1000, 1000, 1000, 1000, <<0 - 1000, 0, 8000, 4000>>)
       [] OTHER -> Geo(5000, 5000, 0, 0, 1000, 1000, <<0, 0, 10000, 10000>>)]

\* the number fields the host application put on its display objects, in
\* enumeration order
HostFields ==
  [n \in Nodes |->
     CASE n = 1 -> << Field("height", 12500) >>
       [] n = 4 -> << Field("width", 8000), Field("parentId", 7000) >>
       [] OTHER -> <<>>]

Scenes ==
  { [children |-> SceneAChildren, attrs |-> SceneAAttrs],
    [children |-> SceneBChildren, attrs |-> SceneBAttrs] }

Range(s) == {s[i] : i \in 1..Len(s)}

Without(s, x) == SelectSeq(s, LAMBDA e : e # x)

\* obj.parent, read off the display list (NoNode when obj is on no list)
ParentOf(ch, n) ==
  IF \E p \in DOMAIN ch : n \in Range(ch[p])
    THEN CHOOSE p \in DOMAIN ch : n \in Range(ch[p])
    ELSE NoNode

RECURSIVE IsAncestor(_, _, _)
\* a is a proper ancestor of n on the display list ch
IsAncestor(ch, a, n) ==
  LET p == ParentOf(ch, n)
  IN  IF p = NoNode THEN FALSE
      ELSE IF p = a THEN TRUE
      ELSE IsAncestor(ch, a, p)

\* the scene nodes below the stage (the overlay layer is not a scene node)
Descendants(ch) == {n \in Nodes : IsAncestor(ch, Stage, n)}

RECURSIVE DepthOf(_, _)
\* nesting level: 0 for a child of the stage, +1 per level of descent
DepthOf(ch, n) ==
  IF ParentOf(ch, n) = Stage THEN 0 ELSE 1 + DepthOf(ch, ParentOf(ch, n))

----------------------------------------------------------------------------
(* Filter specifications *)

\* entries of a filter array: a number, a string, a display object, or
\* something else (a boolean)
Num(v) == [t |-> "number", n |-> v, s |-> ""]
Str(x) == [t |-> "string", n |-> 0, s |-> x]
Obj(r) == [t |-> "object", n |-> r, s |-> ""]
Bool == [t |-> "boolean", n |-> 0, s |-> ""]

\* show() / dump() called without an argument, and with an array
Absent == [present |-> FALSE, list |-> <<>>]
Given(list) == [present |-> TRUE, list |-> list]

\* id and name of any object a filter can be compared with
IdOf(obj) == obj

NamedOf(obj) == IF obj = ContainerId THEN TRUE ELSE attrs[obj].named

NameOf(obj) == IF obj = ContainerId THEN ContainerName ELSE attrs[obj].name

_isString(f) == f.t = "string"

_isNumber(f) == f.t = "number"

\* the loop body of _checkFilters for one entry
_checkFilter(obj, filter) ==
  IF _isNumber(filter) THEN IdOf(obj) = filter.n
  ELSE IF _isString(filter) THEN NamedOf(obj) /\ NameOf(obj) = filter.s
  ELSE filter.t = "object" /\ obj = filter.n

RECURSIVE _checkFiltersFrom(_, _, _, _)
\* for (i; i < length && !back; i++) of _checkFilters, i counted from 1
_checkFiltersFrom(obj, list, i, back) ==
  IF i <= Len(list) /\ ~back
    THEN _checkFiltersFrom(obj, list, i + 1, _checkFilter(obj, list[i]))
    ELSE back

_checkFilters_last(obj, list) ==
  IF list = <<>> THEN FALSE ELSE _checkFilter(obj, list[Len(list)])

_checkFilters(obj, list) == _checkFiltersFrom(obj, list, 1, FALSE)

\* includeObj of _addObjectToContainer
includeObj(obj, F) == ~F.present \/ _checkFilters(obj, F.list)

----------------------------------------------------------------------------
(* Configuration *)

\* propFilters as set by the constructor: the keys with value true
DefaultPropFilters ==
  {"bounds", "pos", "regPos", "width", "height", "name", "id", "x", "y",
   "scaleX", "scaleY"}

\* nestColors as set by the constructor
DefaultNestColors ==
  << "#ff00ff", "#7e00ff", "#ff0083", "#03ff00", "#b300b3", "#5800b3",
     "#b3005c", "#02b300", "#4c004c", "#25004c", "#4c0027", "#004c00" >>

\* values the user gives si.nestColors (non-empty arrays of strings)
NestColorTables == { DefaultNestColors, <<"#ff0000", "blue">> }

_getNestColor_wrap(nestLevel) == nestColors[(nestLevel % Len(nestColors)) + 1]

\* nestLevel is 0-based, the sequence 1-based
_getNestColor(nestLevel) ==
  IF nestLevel > Len(nestColors) - 1
    THEN nestColors[Len(nestColors)]
    ELSE nestColors[nestLevel + 1]

----------------------------------------------------------------------------
(* Overlay synthesis *)

\* the try / catch around the bounds lookup of _addObjectToContainer
resolveBounds(obj) ==
  IF attrs[obj].overrun THEN Rect
  ELSE IF attrs[obj].bounds = Throws THEN Null
  ELSE attrs[obj].bounds

Abs(v) == IF v < 0 THEN 0 - v ELSE v

\* the three decimals of Number.prototype.toFixed(3)
Pad3(f) ==
  IF f < 10 THEN "00" \o ToString(f)
  ELSE IF f < 100 THEN "0" \o ToString(f)
  ELSE ToString(f)

\* v.toFixed(3)
toFixed(v) ==
  (IF v < 0 THEN "-" ELSE "") \o ToString(Abs(v) \div Unit) \o "." \o Pad3(Abs(v) % Unit)

\* a * b of two numbers held in thousandths (the scenes use values whose
\* products are whole thousandths)
Times(a, b) == (a * b) \div Unit

\* obj.x, obj.y, obj.regX, obj.regY, obj.scaleX, obj.scaleY
xOf(obj) == Geometry[obj][1]
yOf(obj) == Geometry[obj][2]
regXOf(obj) == Geometry[obj][3]
regYOf(obj) == Geometry[obj][4]
scaleXOf(obj) == Geometry[obj][5]
scaleYOf(obj) == Geometry[obj][6]

RECURSIVE localToGlobal(_, _, _)
\* DisplayObject.localToGlobal(x, y): the point through obj's transform and
\* those of its ancestors; the stage is untransformed, nothing is rotated
localToGlobal(obj, x, y) ==
  IF obj = Stage THEN <<x, y>>
  ELSE localToGlobal(ParentOf(children, obj),
                     xOf(obj) + Times(scaleXOf(obj), x - regXOf(obj)),
                     yOf(obj) + Times(scaleYOf(obj), y - regYOf(obj)))

\* globalPos of _addObjectToContainer (line 490)
globalPosOf(obj) ==
  localToGlobal(ParentOf(children, obj), xOf(obj), yOf(obj))

\* bounds as used after line 487: <<x, y, width, height>>
boundsOf(obj) == Geometry[obj][7]

\* displayBounds of _addObjectToContainer (lines 492-499)
displayBoundsOf(obj) ==
  LET bounds == boundsOf(obj)
      ul == localToGlobal(obj, bounds[1], bounds[2])
      lr == localToGlobal(obj, bounds[1] + bounds[3], bounds[2] + bounds[4])
  IN  [x |-> ul[1], y |-> ul[2], width |-> lr[1] - ul[1], height |-> lr[2] - ul[2]]

\* a value that depends on the measured size of a text (the canvas font
\* metrics), where a text is expected
Measured == "measured"

\* a coordinate the code computes from the geometry alone, and one that
\* depends on the measured size of a text
Known(v) == <<v>>

Unknown == <<>>

\* one display object added to the container: its createjs id, its name
\* prefix (kind), the object it describes, its color, its position (at:
\* <<x, y>> when the code places it from the geometry alone, <<>> when the
\* position also depends on the measured size of a text), the size of a
\* drawn rectangle, its text and, for an info container, the id of its
\* background shape and its text lines
Prim(kind, obj, color, at, size, text, lines) ==
  [id |-> NoNode, kind |-> kind, of |-> obj, color |-> color, at |-> at,
   size |-> size, text |-> text, bg |-> NoNode, lines |-> lines]

_displayBounds(obj, bounds, displayBounds, globalPos, nestColor) ==
  << Prim("si_bounds_", obj, nestColor, <<displayBounds.x, displayBounds.y>>,
          <<displayBounds.width, displayBounds.height>>, "", <<>>),
     Prim("si_boundsPos_", obj, nestColor, <<>>, <<>>,
          toFixed(bounds[1]) \o "," \o toFixed(bounds[2]), <<>>) >>

_displayPos(obj, bounds, globalPos, nestColor) ==
  << Prim("si_posMarker_", obj, nestColor, globalPos, <<>>, "", <<>>),
     Prim("si_pos_", obj, nestColor, globalPos, <<>>,
          toFixed(xOf(obj)) \o "," \o toFixed(yOf(obj)), <<>>) >>

_displayRegPos_noMarker(obj, bounds, globalPos, nestColor) ==
  << Prim("si_regPosText_", obj, nestColor,
          <<globalPos[1] + 2 * Unit, globalPos[2] - 12 * Unit>>, <<>>,
          toFixed(regXOf(obj)) \o "," \o toFixed(regYOf(obj)), <<>>) >>

\* the cross is drawn again in case regPos is enabled and pos is not
_displayRegPos(obj, bounds, globalPos, nestColor) ==
  << Prim("si_posMarker_", obj, nestColor, globalPos, <<>>, "", <<>>),
     Prim("si_regPosText_", obj, nestColor,
          <<globalPos[1] + 2 * Unit, globalPos[2] - 12 * Unit>>, <<>>,
          toFixed(regXOf(obj)) \o "," \o toFixed(regYOf(obj)), <<>>) >>

_displayWidth_global(obj, bounds, displayBounds, globalPos, nestColor) ==
  << Prim("si_width_", obj, nestColor, <<>>, <<>>, toFixed(displayBounds.width), <<>>) >>

_displayWidth(obj, bounds, displayBounds, globalPos, nestColor) ==
  << Prim("si_width_", obj, nestColor, <<>>, <<>>, toFixed(bounds[3]), <<>>) >>

_displayHeight(obj, bounds, displayBounds, globalPos, nestColor) ==
  << Prim("si_height_", obj, nestColor, <<>>, <<>>, toFixed(bounds[4]), <<>>) >>

\* a text line of an info container: its createjs id, its name
\* 'si_<member>_<id>' and its text '<label>: <value>'
Line(member, label, value) ==
  [id |-> NoNode, member |-> member, label |-> label, value |-> value]

\* the text of a number in '' + val
numberText(v) == IF v % Unit # 0 THEN toFixed(v) ELSE ToString(v \div Unit)

\* val of _displayMember as it appears in the text: a non-integral number
\* goes through toFixed(3)
memberText(obj, k) ==
  CASE k.key = "id" -> ToString(IdOf(obj))
    [] k.key = "name" -> (IF attrs[obj].named THEN attrs[obj].name ELSE "null")
    [] k.key = "x" -> numberText(xOf(obj))
    [] k.key = "y" -> numberText(yOf(obj))
    [] k.key = "scaleX" -> numberText(scaleXOf(obj))
    [] k.key = "scaleY" -> numberText(scaleYOf(obj))
    [] OTHER -> numberText(k.value)

_displayMember(obj, k) == Line(k.key, k.key, memberText(obj, k))

_displayParentId(obj) ==
  Line("parentId", "Parent ID", ToString(IdOf(ParentOf(children, obj))))

specialKeys == {"id", "name"}

\* Object.keys(obj): the fields every display object has, then the host's
ownKeysOf(obj) == OwnKeys \o HostFields[obj]

\* the members shown by the loop over Object.keys(obj)
memberKeys(obj) ==
  SelectSeq(ownKeysOf(obj),
            LAMBDA k : /\ ~k.underscore
                       /\ k.key \notin specialKeys
                       /\ k.key \in propFilters
                       /\ ~k.object)

\* the text lines of the info container, top to bottom
infoLines(obj) ==
  (IF "id" \in propFilters THEN <<_displayMember(obj, Key("id", FALSE, FALSE))>> ELSE <<>>)
  \o (IF "name" \in propFilters THEN <<_displayMember(obj, Key("name", FALSE, FALSE))>> ELSE <<>>)
  \o (IF "parentId" \in propFilters THEN <<_displayParentId(obj)>> ELSE <<>>)
  \o [i \in 1..Len(memberKeys(obj)) |-> _displayMember(obj, memberKeys(obj)[i])]

\* the children of the container so far and the id the next display object
\* constructed will take
Built(prims, next) == [prims |-> prims, uid |-> next]

\* Statement order is written CHOOSE after \in {rest(done) : done \in {first}} :
\* TRUE, which is rest(first): what the first statement leaves is complete
\* before the next statement runs on it.

\* lines 502-551 for one object: the display objects are constructed in
\* this order and every createjs constructor takes the next id: the shapes
\* and texts of _displayBounds .. _displayHeight (marks), the info
\* container, its background, its text lines; the info container is
\* constructed in any case and added only when it has a line
construct(marks, obj, nestColor, lines, st) ==
  LET n == Len(marks)
      info == [Prim("si_infoContainer_", obj, nestColor, <<>>, <<>>, "", <<>>)
                 EXCEPT !.id = st.uid + n,
                        !.bg = st.uid + n + 1,
                        !.lines = [j \in 1..Len(lines) |->
                                     [lines[j] EXCEPT !.id = st.uid + n + 1 + j]]]
  IN  Built(st.prims
              \o [i \in 1..n |-> [marks[i] EXCEPT !.id = st.uid + i - 1]]
              \o (IF Len(lines) > 0 THEN <<info>> ELSE <<>>),
            st.uid + n + 2 + Len(lines))

\* what _addObjectToContainer adds for obj itself once it has bounds
\* (nextY > 0 exactly when there is a line: every line has a positive
\* measured height)
annotate(obj, nestColor, st) ==
  LET bounds == boundsOf(obj)
      displayBounds == displayBoundsOf(obj)
      globalPos == globalPosOf(obj)
  IN  construct(
        (IF "bounds" \in propFilters
           THEN _displayBounds(obj, bounds, displayBounds, globalPos, nestColor) ELSE <<>>)
        \o (IF "pos" \in propFilters
              THEN _displayPos(obj, bounds, globalPos, nestColor) ELSE <<>>)
        \o (IF "regPos" \in propFilters
              THEN _displayRegPos(obj, bounds, globalPos, nestColor) ELSE <<>>)
        \o (IF "width" \in propFilters
              THEN _displayWidth(obj, bounds, displayBounds, globalPos, nestColor) ELSE <<>>)
        \o (IF "height" \in propFilters
              THEN _displayHeight(obj, bounds, displayBounds, globalPos, nestColor) ELSE <<>>),
        obj, nestColor, infoLines(obj), st)

\* obj's own part of _addObjectToContainer (lines 472-552)
addSelf(obj, nestLevel, F, st) ==
  IF includeObj(obj, F) /\ resolveBounds(obj) # Null
    THEN annotate(obj, _getNestColor(nestLevel), st)
    ELSE st

RECURSIVE _addObjectToContainer(_, _, _, _)
RECURSIVE forEachChild(_, _, _, _, _)

\* obj.children.forEach(child => _addObjectToContainer(container, child, nestLevel + 1))
forEachChild(kids, i, nestLevel, F, st) ==
  IF i > Len(kids) THEN st
  ELSE CHOOSE after \in {forEachChild(kids, i + 1, nestLevel, F, done) :
                            done \in {_addObjectToContainer(kids[i], nestLevel, F, st)}} : TRUE

_addObjectToContainer_parentFirst(obj, nestLevel, F, st) ==
  CHOOSE after \in {IF ~attrs[obj].leaf
                       THEN forEachChild(children[obj], 1, nestLevel + 1, F, self)
                       ELSE self :
                     self \in {addSelf(obj, nestLevel, F, st)}} : TRUE

_addObjectToContainer_barrier(obj, nestLevel, F, st) ==
  IF includeObj(obj, F) /\ resolveBounds(obj) # Null
    THEN CHOOSE after \in {addSelf(obj, nestLevel, F, below) :
                              below \in {IF ~attrs[obj].leaf
                                           THEN forEachChild(children[obj], 1,
                                                             nestLevel + 1, F, st)
                                           ELSE st}} : TRUE
    ELSE st

\* the container's children and the next id after _addObjectToContainer
\* ran for obj and its descendants
_addObjectToContainer(obj, nestLevel, F, st) ==
  CHOOSE after \in {addSelf(obj, nestLevel, F, below) :
                     below \in {IF ~attrs[obj].leaf
                                  THEN forEachChild(children[obj], 1, nestLevel + 1, F, st)
                                  ELSE st}} : TRUE

\* Container.removeAllChildren
removeAllChildren_keep(kids) == kids

removeAllChildren(kids) == <<>>

\* child != this._container in _updateDisplay
traversed_all(child) == TRUE

traversed(child) == child # ContainerId
Own(id, named, name, parent, bounded, pos, gpos, reg, origin) ==
  [id |-> id, named |-> named, name |-> name, parent |-> parent,
   bounded |-> bounded, pos |-> pos, gpos |-> gpos, reg |-> reg, origin |-> origin]

\* the name _display* gives a child of the container
primName(p) == p.kind \o ToString(p.of)

\* the name _displayMember / _displayParentId gives a text line
lineName(p, j) == "si_" \o p.lines[j].member \o "_" \o ToString(p.of)

\* the createjs classes of the children of the container
Shapes == {"si_bounds_", "si_posMarker_"}

\* x and y as _display* sets them on a child of the container
primPos(p) ==
  CASE p.kind \in {"si_pos_", "si_regPosText_"} /\ p.at # <<>> ->
         <<Known(p.at[1]), Known(p.at[2])>>
    [] p.kind \in {"si_boundsPos_", "si_width_"} /\ p.of \in Nodes ->
         <<Unknown, Known(displayBoundsOf(p.of).y + 2 * Unit)>>
    [] OTHER -> <<Unknown, Unknown>>

\* a child of the container (the container is not transformed, so the
\* child's position is its position on the stage)
ownPrim(p) ==
  Own(p.id, TRUE, primName(p), ContainerId, p.kind \notin Shapes,
      primPos(p), primPos(p),
      <<Known(0), IF p.kind = "si_height_" THEN Unknown ELSE Known(0)>>,
      <<Known(0), Known(0)>>)

\* text line j of info container p: x is 0 and y is nextY, which is 0 for
\* the first line
ownLine(p, j) ==
  Own(p.lines[j].id, TRUE, lineName(p, j), p.id, TRUE,
      <<Known(0), IF j = 1 THEN Known(0) ELSE Unknown>>, <<Unknown, Unknown>>,
      <<Known(0), Known(0)>>, <<Known(0), Known(0)>>)

\* the background shape of info container p
ownBackground(p) ==
  Own(p.bg, FALSE, "", p.id, FALSE, <<Known(0), Known(0)>>, <<Unknown, Unknown>>,
      <<Known(0), Known(0)>>, <<Unknown, Unknown>>)

\* the container itself while it holds prims
ownContainer(prims) ==
  Own(ContainerId, TRUE, ContainerName, Stage,
      \E i \in 1..Len(prims) : prims[i].kind \notin Shapes,
      <<Known(0), Known(0)>>, <<Known(0), Known(0)>>, <<Known(0), Known(0)>>,
      <<Unknown, Unknown>>)

\* a.toFixed(3) + ',' + b.toFixed(3)
pairText(c) ==
  IF c[1] = Unknown \/ c[2] = Unknown THEN Measured
  ELSE toFixed(c[1][1]) \o "," \o toFixed(c[2][1])

\* the text of a coordinate in '' + val
coordText(c) == IF c = Unknown THEN Measured ELSE numberText(c[1])

\* a point when both its coordinates are known
pointOf(c, dx, dy) ==
  IF c[1] = Unknown \/ c[2] = Unknown THEN <<>> ELSE <<c[1][1] + dx, c[2][1] + dy>>

\* line 472 for a display object of the overlay
includeOwn(o, F) ==
  \/ ~F.present
  \/ \E i \in 1..Len(F.list) :
        \/ _isNumber(F.list[i]) /\ o.id = F.list[i].n
        \/ _isString(F.list[i]) /\ o.named /\ o.name = F.list[i].s
        \/ F.list[i].t = "object" /\ o.id = F.list[i].n

\* the value of a member of a display object of the overlay as
\* _displayMember prints it
ownMemberText(o, key) ==
  CASE key = "x" -> coordText(o.pos[1])
    [] key = "y" -> coordText(o.pos[2])
    [] OTHER -> "1"

\* the text lines of the info container of a display object of the overlay
ownLines(o) ==
  LET keys == SelectSeq(OwnKeys,
                        LAMBDA k : /\ ~k.underscore
                                   /\ k.key \notin specialKeys
                                   /\ k.key \in propFilters
                                   /\ ~k.object)
  IN  (IF "id" \in propFilters THEN <<Line("id", "id", ToString(o.id))>> ELSE <<>>)
      \o (IF "name" \in propFilters
            THEN <<Line("name", "name", IF o.named THEN o.name ELSE "null")>> ELSE <<>>)
      \o (IF "parentId" \in propFilters
            THEN <<Line("parentId", "Parent ID", ToString(o.parent))>> ELSE <<>>)
      \o [i \in 1..Len(keys) |-> Line(keys[i].key, keys[i].key, ownMemberText(o, keys[i].key))]

\* lines 472-552 for a display object of the overlay: its rectangle and its
\* width and height are measured
annotateOwn(o, nestLevel, F, st) ==
  LET nestColor == _getNestColor(nestLevel)
      cross == Prim("si_posMarker_", o.id, nestColor, pointOf(o.gpos, 0, 0), <<>>, "", <<>>)
  IN  IF includeOwn(o, F) /\ o.bounded
        THEN construct(
               (IF "bounds" \in propFilters
                  THEN << Prim("si_bounds_", o.id, nestColor, <<>>, <<>>, "", <<>>),
                          Prim("si_boundsPos_", o.id, nestColor, <<>>, <<>>,
                               pairText(o.origin), <<>>) >>
                  ELSE <<>>)
               \o (IF "pos" \in propFilters
                     THEN << cross,
                             Prim("si_pos_", o.id, nestColor, pointOf(o.gpos, 0, 0), <<>>,
                                  pairText(o.pos), <<>>) >>
                     ELSE <<>>)
               \o (IF "regPos" \in propFilters
                     THEN << cross,
                             Prim("si_regPosText_", o.id, nestColor,
                                  pointOf(o.gpos, 2 * Unit, 0 - 12 * Unit), <<>>,
                                  pairText(o.reg), <<>>) >>
                     ELSE <<>>)
               \o (IF "width" \in propFilters
                     THEN << Prim("si_width_", o.id, nestColor, <<>>, <<>>, Measured, <<>>) >>
                     ELSE <<>>)
               \o (IF "height" \in propFilters
                     THEN << Prim("si_height_", o.id, nestColor, <<>>, <<>>, Measured, <<>>) >>
                     ELSE <<>>),
               o.id, nestColor, ownLines(o), st)
        ELSE st

RECURSIVE forEachLine(_, _, _, _)
\* infoContainer.children.forEach past the background, at nesting level 2
forEachLine(p, j, F, st) ==
  IF j > Len(p.lines) THEN st
  ELSE CHOOSE after \in {forEachLine(p, j + 1, F, done) :
                            done \in {annotateOwn(ownLine(p, j), 2, F, st)}} : TRUE

\* _addObjectToContainer for a child p of the container, at nesting level
\* 1: the background and the text lines of an info container first
addOwn(p, F, st) ==
  CHOOSE after \in {annotateOwn(ownPrim(p), 1, F, below) :
                     below \in {IF p.kind = "si_infoContainer_"
                                  THEN forEachLine(p, 1, F,
                                                   annotateOwn(ownBackground(p), 2, F, st))
                                  ELSE st}} : TRUE

RECURSIVE forEachOwn(_, _, _, _)
\* container.children.forEach while the container is obj: forEach visits
\* the children the container had when it started (kids)
forEachOwn(kids, i, F, st) ==
  IF i > Len(kids) THEN st
  ELSE CHOOSE after \in {forEachOwn(kids, i + 1, F, done) :
                            done \in {addOwn(kids[i], F, st)}} : TRUE

\* _addObjectToContainer applied to the container itself: its children, then
\* the container with the bounds of all it holds by then
addContainerItself(st, F) ==
  CHOOSE after \in {annotateOwn(ownContainer(below.prims), 0, F, below) :
                     below \in {forEachOwn(st.prims, 1, F, st)}} : TRUE

RECURSIVE forEachStageChild(_, _, _, _)
\* this._stage.children.forEach of _updateDisplay; st holds the container's
\* children so far
forEachStageChild(st, kids, i, F) ==
  IF i > Len(kids) THEN st
  ELSE IF ~traversed(kids[i]) THEN forEachStageChild(st, kids, i + 1, F)
  ELSE CHOOSE after \in {forEachStageChild(done, kids, i + 1, F) :
                            done \in {IF kids[i] = ContainerId
                                        THEN addContainerItself(st, F)
                                        ELSE _addObjectToContainer(kids[i], 0, F, st)}} : TRUE

\* _updateDisplay on a container holding cur, a stage holding kids,
\* this._filters = F and next the id the next display object will take
_updateDisplay(cur, kids, F, next) ==
  forEachStageChild(Built(removeAllChildren(cur), next), kids, 1, F)

----------------------------------------------------------------------------
(* Host display list primitives used by the inspector *)

removeChild_last(kids, child) ==
  IF kids = <<>> THEN <<>> ELSE SubSeq(kids, 1, Len(kids) - 1)

RECURSIVE removeChild(_, _)
\* Container.removeChild: drops the first occurrence of child, if any
removeChild(kids, child) ==
  IF kids = <<>> THEN <<>>
  ELSE IF Head(kids) = child THEN Tail(kids)
  ELSE <<Head(kids)>> \o removeChild(Tail(kids), child)

\* Container.addChild: a child that has a parent leaves it first
addChild(kids, child) == Append(removeChild(kids, child), child)

\* get showing
showing ==
  /\ Len(children[Stage]) > 0
  /\ children[Stage][Len(children[Stage])] = ContainerId

----------------------------------------------------------------------------
(* State *)

\* what an operation hands back: the display objects returned (nodes), the
\* console reports emitted (reports), a boolean answer (bool), whether it
\* threw (fault), whether the event's propagation was stopped (stopped),
\* and how many times dump() ran (dumps)
Result(kind, nodes, reports, bool, fault, stopped, dumps) ==
  [kind |-> kind, nodes |-> nodes, reports |-> reports, bool |-> bool,
   fault |-> fault, stopped |-> stopped, dumps |-> dumps]

NoResult == Result("none", <<>>, <<>>, FALSE, FALSE, FALSE, 0)

\* suppressEvents of enableClickToDump
SuppressedEvents == {"mousedown", "pressup", "dblclick", "mouseout", "mouseover", "pressmove"}

\* the event types enableClickToDump listens to
DumpEvents == {"click"} \cup SuppressedEvents

\* no listener of the inspector is registered on the stage
NoListeners == [type \in DumpEvents |-> 0]

Init ==
  /\ \E scene \in Scenes : children = scene.children /\ attrs = scene.attrs
  /\ overlay = <<>>
  /\ uid = FirstUid
  /\ filters = Absent
  /\ updateOnDraw = TRUE
  /\ subscribed = FALSE
  /\ propFilters = DefaultPropFilters
  /\ nestColors = DefaultNestColors
  /\ dumpListeners = FALSE
  /\ listeners = NoListeners
  /\ op = "new"
  /\ rebuilds = 0
  /\ showRun = 0
  /\ result = NoResult

\* filter arguments given to show(): none, a name, and the ids of a
\* scene node and of the overlay layer
ShowFilters == { Absent, Given(<<Str("a")>>), Given(<<Num(4), Num(ContainerId)>>) }

----------------------------------------------------------------------------
(* Operations of the inspector *)

\* the subscription after hide(): removed only when updateOnDraw is true
hideSubscribed == IF updateOnDraw THEN FALSE ELSE subscribed

\* hide()
Hide ==
  /\ subscribed' = hideSubscribed
  /\ overlay' = removeAllChildren(overlay)
  /\ children' = [children EXCEPT ![Stage] = removeChild(@, ContainerId)]
  /\ op' = "hide"
  /\ rebuilds' = 0
  /\ showRun' = 0
  /\ result' = NoResult
  /\ UNCHANGED <<attrs, uid, filters, updateOnDraw, propFilters, nestColors,
                 dumpListeners, listeners>>

\* show(filters)
Show(F) ==
  LET hidden == removeChild(children[Stage], ContainerId)
      built == _updateDisplay(removeAllChildren(overlay), hidden, F, uid)
  IN  /\ filters' = F
      /\ IF updateOnDraw
           THEN /\ subscribed' = TRUE
                /\ overlay' = removeAllChildren(overlay)
                /\ uid' = uid
                /\ rebuilds' = 0
           ELSE /\ built.uid <= MaxUid
                /\ subscribed' = hideSubscribed
                /\ overlay' = built.prims
                /\ uid' = built.uid
                /\ rebuilds' = 1
      /\ children' = [children EXCEPT ![Stage] = addChild(hidden, ContainerId)]
      /\ op' = "show"
      /\ showRun' = IF op = "show" /\ filters = F /\ showRun < MaxShowRun
                      THEN showRun + 1
                      ELSE IF op = "show" /\ filters = F THEN showRun ELSE 1
      /\ result' = NoResult
      /\ UNCHANGED <<attrs, updateOnDraw, propFilters, nestColors,
                     dumpListeners, listeners>>

\* set updateOnDraw(val)
SetUpdateOnDraw(val) ==
  /\ subscribed' = IF showing /\ val # updateOnDraw THEN ~updateOnDraw ELSE subscribed
  /\ updateOnDraw' = val
  /\ op' = "updateOnDraw"
  /\ rebuilds' = 0
  /\ showRun' = 0
  /\ result' = NoResult
  /\ UNCHANGED <<children, attrs, overlay, uid, filters, propFilters, nestColors,
                 dumpListeners, listeners>>

\* the stage dispatches 'drawstart' (stage.update() of the host), as long
\* as the ids stay below cap
DrawStartWithin(cap) ==
  LET built == _updateDisplay(overlay, children[Stage], filters, uid)
  IN  /\ IF subscribed
           THEN /\ built.uid <= cap
                /\ overlay' = built.prims
                /\ uid' = built.uid
                /\ rebuilds' = 1
           ELSE /\ overlay' = overlay
                /\ uid' = uid
                /\ rebuilds' = 0
      /\ op' = "drawstart"
      /\ showRun' = 0
      /\ result' = NoResult
      /\ UNCHANGED <<children, attrs, filters, updateOnDraw, subscribed, propFilters,
                     nestColors, dumpListeners, listeners>>

DrawStart == DrawStartWithin(MaxUid)

\* si.nestColors = table
SetNestColors(table) ==
  /\ table # nestColors
  /\ nestColors' = table
  /\ op' = "nestColors"
  /\ rebuilds' = 0
  /\ showRun' = 0
  /\ result' = NoResult
  /\ UNCHANGED <<children, attrs, overlay, uid, filters, updateOnDraw, subscribed,
                 propFilters, dumpListeners, listeners>>

----------------------------------------------------------------------------
(* The host application *)

\* stage.addChild(n) for a display object that is on no display list
HostAddChild(n) ==
  /\ ParentOf(children, n) = NoNode
  /\ Len(removeChild(children[Stage], ContainerId)) < MaxStageKids
  /\ children' = [children EXCEPT ![Stage] = addChild(@, n)]
  /\ op' = "hostAdd"
  /\ rebuilds' = 0
  /\ showRun' = 0
  /\ result' = NoResult
  /\ UNCHANGED <<attrs, overlay, uid, filters, updateOnDraw, subscribed, propFilters,
                 nestColors, dumpListeners, listeners>>

\* stage.removeChild(n) for a child of the stage other than the container
HostRemoveChild(n) ==
  /\ n \in Range(children[Stage])
  /\ children' = [children EXCEPT ![Stage] = removeChild(@, n)]
  /\ op' = "hostRemove"
  /\ rebuilds' = 0
  /\ showRun' = 0
  /\ result' = NoResult
  /\ UNCHANGED <<attrs, overlay, uid, filters, updateOnDraw, subscribed, propFilters,
                 nestColors, dumpListeners, listeners>>

----------------------------------------------------------------------------
(* Search and dump *)

\* Every object a search can reach is known by its createjs id: the stage,
\* the scene nodes, the container, and the display objects the inspector
\* constructed after the container (the container's children, and the
\* background and text lines of the info containers among them)
IsPrimitive(ref) == ref > ContainerId

\* ref is an info container held by the container
IsInfoContainer(ref) ==
  \E i \in 1..Len(overlay) :
     overlay[i].id = ref /\ overlay[i].kind = "si_infoContainer_"

\* the child of the container whose id is ref
primAt(ref) == overlay[CHOOSE i \in 1..Len(overlay) : overlay[i].id = ref]

\* infoContainer.children: the background, then the text lines
infoChildren(p) == <<p.bg>> \o [j \in 1..Len(p.lines) |-> p.lines[j].id]

\* obj.children, as the searches and the dump read it
childrenOf(ref) ==
  IF ref = ContainerId THEN [i \in 1..Len(overlay) |-> overlay[i].id]
  ELSE IF IsInfoContainer(ref) THEN infoChildren(primAt(ref))
  ELSE IF IsPrimitive(ref) THEN <<>>
  ELSE children[ref]

\* if (obj.children): an array, even an empty one, is truthy; a Shape and a
\* Text have no such field
hasChildren(ref) ==
  IF ref \in {Stage, ContainerId} THEN TRUE
  ELSE IF IsPrimitive(ref) THEN IsInfoContainer(ref)
  ELSE ~attrs[ref].leaf

\* the names of the display objects of the overlay whose id is ref: that
\* of a child of the container, or that of a text line (a background has
\* no name)
overlayNames(ref) ==
  {primName(overlay[i]) : i \in {k \in 1..Len(overlay) : overlay[k].id = ref}}
  \cup UNION {{lineName(overlay[i], j) :
                 j \in {l \in 1..Len(overlay[i].lines) : overlay[i].lines[l].id = ref}} :
              i \in 1..Len(overlay)}

\* obj.name === name (the stage has no name)
nameIs(ref, name) ==
  IF ref = Stage THEN FALSE
  ELSE IF IsPrimitive(ref) THEN name \in overlayNames(ref)
  ELSE NamedOf(ref) /\ NameOf(ref) = name

\* predicates handed to the searches
ByName(name) == [by |-> "name", s |-> name, n |-> 0]
ById(id) == [by |-> "id", s |-> "", n |-> id]
IdFrom(id) == [by |-> "idFrom", s |-> "", n |-> id]
Always == [by |-> "always", s |-> "", n |-> 0]

\* func(obj)
holds(func, ref) ==
  CASE func.by = "name" -> nameIs(ref, func.s)
    [] func.by = "id" -> IdOf(ref) = func.n
    [] func.by = "idFrom" -> IdOf(ref) >= func.n
    [] OTHER -> TRUE

RECURSIVE _searchForObject(_, _)
RECURSIVE _searchForObjectFrom(_, _, _, _)

\* for (i; i < obj.children.length && !back; i++), i counted from 1
_searchForObjectFrom(kids, i, back, func) ==
  IF i <= Len(kids) /\ back = NoNode
    THEN _searchForObjectFrom(kids, i + 1, _searchForObject(kids[i], func), func)
    ELSE back

_searchForObject_childrenFirst(obj, func) ==
  LET below == IF hasChildren(obj)
                 THEN _searchForObjectFrom(childrenOf(obj), 1, NoNode, func)
                 ELSE NoNode
  IN  IF below # NoNode THEN below
      ELSE IF holds(func, obj) THEN obj
      ELSE NoNode

_searchForObject(obj, func) ==
  IF holds(func, obj) THEN obj
  ELSE IF hasChildren(obj) THEN _searchForObjectFrom(childrenOf(obj), 1, NoNode, func)
  ELSE NoNode

RECURSIVE _searchForObjects(_, _)
RECURSIVE _searchForObjectsFrom(_, _, _)

_searchForObjectsFrom(kids, i, func) ==
  IF i <= Len(kids)
    THEN _searchForObjects(kids[i], func) \o _searchForObjectsFrom(kids, i + 1, func)
    ELSE <<>>

_searchForObjects_descend(obj, func) ==
  (IF holds(func, obj) THEN <<obj>> ELSE <<>>)
  \o (IF hasChildren(obj) THEN _searchForObjectsFrom(childrenOf(obj), 1, func) ELSE <<>>)

_searchForObjects(obj, func) ==
  IF holds(func, obj) THEN <<obj>>
  ELSE IF hasChildren(obj) THEN _searchForObjectsFrom(childrenOf(obj), 1, func)
  ELSE <<>>

\* name.toLowerCase() === 'stage', for the names the model passes
isStageName(name) == name \in {"stage", "Stage"}

getObjectByName(name) ==
  IF isStageName(name) THEN Stage ELSE _searchForObject(Stage, ByName(name))

getObjectById(id) == _searchForObject(Stage, ById(id))

getObjectsByCustomSearch(func) == _searchForObjects(Stage, func)

\* one console group opened by _dumpObject
Report(ref, expand) == [ref |-> ref, expand |-> expand]

RECURSIVE _dumpObject(_, _)
RECURSIVE _dumpChildren(_, _)

_dumpChildren(kids, i) ==
  IF i <= Len(kids)
    THEN _dumpObject(kids[i], FALSE) \o _dumpChildren(kids, i + 1)
    ELSE <<>>

\* the groups _dumpObject opens for obj and below, in console order
_dumpObject(obj, expand) ==
  IF obj = ContainerId THEN <<>>
  ELSE <<Report(obj, expand)>>
       \o (IF hasChildren(obj) THEN _dumpChildren(childrenOf(obj), 1) ELSE <<>>)

\* the object a dump entry stands for
dumpTarget(entry) ==
  IF _isString(entry) THEN getObjectByName(entry.s)
  ELSE IF _isNumber(entry) THEN getObjectById(entry.n)
  ELSE entry.n

RECURSIVE dumpEach(_, _, _)
\* objects.forEach of dump: _getObjectDisplayName(null) throws a TypeError,
\* which ends the loop and leaves dump()
dumpEach(list, i, reports) ==
  IF i > Len(list) THEN [reports |-> reports, fault |-> FALSE]
  ELSE IF dumpTarget(list[i]) = NoNode THEN [reports |-> reports, fault |-> TRUE]
  ELSE dumpEach(list, i + 1, reports \o _dumpObject(dumpTarget(list[i]), TRUE))

\* dump(objects): the reports emitted and whether it threw
dump(objects) ==
  IF objects.present THEN dumpEach(objects.list, 1, <<>>)
  ELSE [reports |-> _dumpObject(Stage, TRUE), fault |-> FALSE]

\* arguments the model passes: 15 and 16 are the ids of the first info
\* container and of its background after one rebuild of a whole scene
NameArgs == {"a", "Stage", "zz", ContainerName, "si_id_4"}
IdArgs == {4, 16, 99, ContainerId}
FuncArgs == {ByName("a"), IdFrom(2), IdFrom(16), Always}
DumpArgs ==
  { Absent, Given(<<Num(4)>>), Given(<<Num(15)>>), Given(<<Str("a")>>),
    Given(<<Num(99), Str("a")>>) }
UnderPoint == { <<>>, <<4>> }
Query(kind, res) ==
  /\ op' = kind
  /\ result' = res
  /\ rebuilds' = 0
  /\ showRun' = 0
  /\ UNCHANGED <<children, attrs, overlay, uid, filters, updateOnDraw, subscribed,
                 propFilters, nestColors, dumpListeners, listeners>>

GetObjectByName(name) ==
  Query("getObjectByName",
        Result("object", <<getObjectByName(name)>>, <<>>, FALSE, FALSE, FALSE, 0))

GetObjectById(id) ==
  Query("getObjectById",
        Result("object", <<getObjectById(id)>>, <<>>, FALSE, FALSE, FALSE, 0))

GetObjectsByCustomSearch(func) ==
  Query("getObjectsByCustomSearch",
        Result("objects", getObjectsByCustomSearch(func), <<>>, FALSE, FALSE, FALSE, 0))

Dump(objects) ==
  LET dumped == dump(objects)
  IN  Query("dump", Result("dump", <<>>, dumped.reports, FALSE, dumped.fault, FALSE, 1))

\* if (!this._dumpListeners) of enableClickToDump
enableGuard_always == TRUE

enableGuard == ~dumpListeners

\* enableClickToDump(): stage.on(type, ...) registers a new listener for
\* every type each time it runs
EnableClickToDump ==
  /\ IF enableGuard
       THEN /\ dumpListeners' = TRUE
            /\ listeners' = [type \in DumpEvents |-> listeners[type] + 1]
       ELSE UNCHANGED <<dumpListeners, listeners>>
  /\ op' = "enableClickToDump"
  /\ result' = NoResult
  /\ rebuilds' = 0
  /\ showRun' = 0
  /\ UNCHANGED <<children, attrs, overlay, uid, filters, updateOnDraw, subscribed,
                 propFilters, nestColors>>

\* disableClickToDump(): stage.off removes the listeners this._dumpListeners
\* holds, one per type
DisableClickToDump ==
  /\ IF dumpListeners
       THEN /\ dumpListeners' = FALSE
            /\ listeners' = [type \in DumpEvents |-> listeners[type] - 1]
       ELSE UNCHANGED <<dumpListeners, listeners>>
  /\ op' = "disableClickToDump"
  /\ result' = NoResult
  /\ rebuilds' = 0
  /\ showRun' = 0
  /\ UNCHANGED <<children, attrs, overlay, uid, filters, updateOnDraw, subscribed,
                 propFilters, nestColors>>

RECURSIVE clickReports(_, _)
\* the reports of k runs of _clickToDumpListener
clickReports(objects, k) ==
  IF k = 0 THEN <<>> ELSE dump(objects).reports \o clickReports(objects, k - 1)

\* a click is dispatched to the stage's capture phase; objects are the
\* display objects under the point: every registered click listener runs
\* _clickToDumpListener, which dumps them and then stops the propagation
Click(objects) ==
  LET under == Given([i \in 1..Len(objects) |-> Obj(objects[i])])
      dumped == dump(under)
  IN  IF listeners["click"] > 0
        THEN Query("click",
                   Result("dump", <<>>, clickReports(under, listeners["click"]), FALSE,
                          dumped.fault, ~dumped.fault, listeners["click"]))
        ELSE Query("click", NoResult)

\* another mouse event is dispatched to the stage's capture phase: every
\* registered listener of its type runs _suppressEvent
MouseEvent(type) ==
  IF listeners[type] > 0
    THEN Query(type, Result("none", <<>>, <<>>, FALSE, FALSE, TRUE, 0))
    ELSE Query(type, NoResult)

----------------------------------------------------------------------------
(* Specifications *)

\* the overlay's life cycle, with the property filters the constructor
\* sets
Next ==
  \/ \E F \in ShowFilters : Show(F)
  \/ Hide
  \/ \E val \in BOOLEAN : SetUpdateOnDraw(val)
  \/ DrawStart
  \/ \E table \in NestColorTables : SetNestColors(table)
  \/ \E n \in Nodes : HostAddChild(n)
  \/ \E n \in Nodes : HostRemoveChild(n)

Spec == Init /\ [][Next]_vars

\* arguments of the searches and of dump() in SpecOps
OpsNameArgs == {"a", "Stage", "zz"}
OpsIdArgs == {4, 99}
OpsFuncArgs == {ByName("a"), Always}
OpsDumpArgs == { Absent, Given(<<Num(4)>>), Given(<<Num(99), Str("a")>>) }

\* every operation of the inspector, with the configuration the
\* constructor sets
NextOps ==
  \/ \E F \in ShowFilters : Show(F)
  \/ Hide
  \/ \E val \in BOOLEAN : SetUpdateOnDraw(val)
  \/ DrawStart
  \/ \E n \in Nodes : HostAddChild(n)
  \/ \E name \in OpsNameArgs : GetObjectByName(name)
  \/ \E id \in OpsIdArgs : GetObjectById(id)
  \/ \E func \in OpsFuncArgs : GetObjectsByCustomSearch(func)
  \/ \E objects \in OpsDumpArgs : Dump(objects)
  \/ EnableClickToDump
  \/ DisableClickToDump
  \/ \E objects \in UnderPoint : Click(objects)
  \/ \E type \in SuppressedEvents : MouseEvent(type)

SpecOps == Init /\ [][NextOps]_vars

\* the searches, the dump and click-to-dump, on a stage whose overlay is
\* shown, rebuilt and hidden
NextQuery ==
  \/ \E F \in ShowFilters : Show(F)
  \/ Hide
  \/ DrawStartWithin(MaxQueryUid)
  \/ \E name \in NameArgs : GetObjectByName(name)
  \/ \E id \in IdArgs : GetObjectById(id)
  \/ \E func \in FuncArgs : GetObjectsByCustomSearch(func)
  \/ \E objects \in DumpArgs : Dump(objects)
  \/ EnableClickToDump
  \/ DisableClickToDump
  \/ \E objects \in UnderPoint : Click(objects)
  \/ \E type \in SuppressedEvents : MouseEvent(type)

SpecQuery == Init /\ [][NextQuery]_vars

----------------------------------------------------------------------------
(* The filter matcher on its own *)

\* entries the matcher is tried on
FilterEntries ==
  { Num(1), Num(4), Num(99), Str("a"), Str("A"), Str(""), Str("zz"),
    Obj(1), Obj(4), Bool }

RECURSIVE SeqsUpTo(_, _)
\* the sequences over S of length at most n
SeqsUpTo(S, n) ==
  IF n = 0 THEN {<<>>}
  ELSE SeqsUpTo(S, n - 1)
       \cup {Append(q, e) : q \in {r \in SeqsUpTo(S, n - 1) : Len(r) = n - 1}, e \in S}

MatchFilterSpecs == {Absent} \cup {Given(list) : list \in SeqsUpTo(FilterEntries, MaxFilterLen)}

InitMatch ==
  /\ \E scene \in Scenes : children = scene.children /\ attrs = scene.attrs
  /\ overlay = <<>>
  /\ uid = FirstUid
  /\ filters \in MatchFilterSpecs
  /\ updateOnDraw = TRUE
  /\ subscribed = FALSE
  /\ propFilters = DefaultPropFilters
  /\ nestColors = DefaultNestColors
  /\ dumpListeners = FALSE
  /\ listeners = NoListeners
  /\ op = "new"
  /\ rebuilds = 0
  /\ showRun = 0
  /\ result = NoResult

\* line 472 of _addObjectToContainer evaluated for obj with this._filters
Match(obj) ==
  Query("includeObj",
        Result("bool", <<obj>>, <<>>, includeObj(obj, filters), FALSE, FALSE, 0))

NextMatch == \E obj \in Nodes : Match(obj)

SpecMatch == InitMatch /\ [][NextMatch]_vars

----------------------------------------------------------------------------
(* The annotation synthesizer under every property filter set *)

\* the keys si.propFilters is tried with
SynthKeys ==
  {"bounds", "pos", "regPos", "width", "height", "id", "name", "parentId", "scaleY"}

\* the inspector with live refresh turned off and any property filter set
InitSynth ==
  /\ \E scene \in Scenes : children = scene.children /\ attrs = scene.attrs
  /\ overlay = <<>>
  /\ uid = FirstUid
  /\ filters = Absent
  /\ updateOnDraw = FALSE
  /\ subscribed = FALSE
  /\ propFilters \in SUBSET SynthKeys
  /\ nestColors = DefaultNestColors
  /\ dumpListeners = FALSE
  /\ listeners = NoListeners
  /\ op = "new"
  /\ rebuilds = 0
  /\ showRun = 0
  /\ result = NoResult

NextSynth == \E F \in ShowFilters : Show(F)

SpecSynth == InitSynth /\ [][NextSynth]_vars

----------------------------------------------------------------------------
(* Properties *)

\* the overlay layer is on the stage's display list
Attached == ContainerId \in Range(children[Stage])

\* the nodes that have a primitive in the overlay layer
Annotated == {overlay[i].of : i \in 1..Len(overlay)}

\* a filter specification matches a node, as the documentation states it
MatchesSpec(n, F) ==
  \/ ~F.present
  \/ \E i \in 1..Len(F.list) :
        \/ F.list[i].t = "number" /\ F.list[i].n = n
        \/ F.list[i].t = "string" /\ attrs[n].named /\ attrs[n].name = F.list[i].s
        \/ F.list[i].t = "object" /\ F.list[i].n = n

\* the node has bounds to draw: getBounds returns a rectangle, or the
\* frame-overrun substitute applies
BoundsDefined(n) == attrs[n].overrun \/ attrs[n].bounds = Rect

\* the property filter set makes a matched, bounded node draw something
DrawsSomething(n) ==
  \/ propFilters \cap {"bounds", "pos", "regPos", "width", "height", "id", "name", "parentId"} # {}
  \/ \E i \in 1..Len(ownKeysOf(n)) :
        /\ ownKeysOf(n)[i].key \in propFilters
        /\ ~ownKeysOf(n)[i].underscore
        /\ ~ownKeysOf(n)[i].object

\* C1 as stated: after a rebuild the annotated nodes are exactly the stage's
\* descendants that match the filter and have bounds, whatever else is set.
C1_AnnotatedExactlyMatchingBounded ==
  rebuilds > 0 =>
    Annotated = {n \in Descendants(children) : MatchesSpec(n, filters) /\ BoundsDefined(n)}

\* C1 amended: after a rebuild the annotated nodes are exactly the stage's
\* descendants that match the filter, have bounds, and for which the
\* property filter set enables at least one primitive; unbounded or
\* unmatched ancestors never hide such a node.
C1_AnnotatedExactlyMatchingBoundedDrawn ==
  rebuilds > 0 =>
    Annotated = {n \in Descendants(children) :
                   MatchesSpec(n, filters) /\ BoundsDefined(n) /\ DrawsSomething(n)}

\* a rebuild annotated a node below an ancestor that has no bounds and one
\* that fails the filter
C1_Witness ==
  /\ rebuilds > 0
  /\ \E n \in Annotated : \E a, b \in Nodes :
        /\ IsAncestor(children, a, n) /\ ~BoundsDefined(a)
        /\ IsAncestor(children, b, n) /\ ~MatchesSpec(b, filters)

\* C2: the matcher answers true without a filter array, and otherwise true
\* exactly when some entry is a number equal to the node's id, a string
\* equal to its name, or the node itself; evaluating it changes nothing.
C2_MatcherAgreesWithContract ==
  [][op' = "includeObj" =>
       /\ result'.bool = MatchesSpec(result'.nodes[1], filters)
       /\ UNCHANGED <<children, attrs, overlay, uid, filters, updateOnDraw, subscribed,
                      propFilters, nestColors, dumpListeners, listeners>>]_vars

\* the matcher rejected a node whose name differs only in case from a string
\* entry, although an earlier entry is a number that is no node's id
C2_Witness ==
  /\ op = "includeObj"
  /\ filters = Given(<<Num(99), Str("A")>>)
  /\ attrs[result.nodes[1]].name = "a"
  /\ ~result.bool

\* C3: no primitive in the overlay layer describes the overlay layer or one
\* of its own children: every primitive describes a scene node.
C3_OverlayNeverAnnotatesItself ==
  \A i \in 1..Len(overlay) : overlay[i].of \in Nodes

\* a redraw rebuilt a non-empty overlay while the layer was on the stage
C3_Witness ==
  /\ op = "drawstart" /\ rebuilds > 0
  /\ Attached
  /\ overlay # <<>>

\* C4 as stated: after hide() the redraw handler is not subscribed, the
\* overlay layer is empty and it is not a child of the stage.
C4_HiddenAfterHide ==
  op = "hide" => ~subscribed /\ overlay = <<>> /\ ~Attached

\* C5 as stated: a redraw rebuilds exactly once while shown with live
\* refresh on, and not at all while shown with live refresh off or while
\* hidden; show() with live refresh off rebuilds exactly once.
C5_RebuildsFollowLifecycle ==
  /\ op = "drawstart" /\ Attached /\ updateOnDraw => rebuilds = 1
  /\ op = "drawstart" /\ Attached /\ ~updateOnDraw => rebuilds = 0
  /\ op = "drawstart" /\ ~Attached => rebuilds = 0
  /\ op = "show" /\ ~updateOnDraw => rebuilds = 1

\* C6 as stated: while shown the overlay layer is a child of the stage
\* exactly once and is its last child; right after show() showing is true.
C6_OverlayLastWhileShown ==
  /\ Attached =>
       /\ Cardinality({i \in 1..Len(children[Stage]) : children[Stage][i] = ContainerId}) = 1
       /\ children[Stage][Len(children[Stage])] = ContainerId
  /\ op = "show" => showing

InspectorOps ==
  {"show", "hide", "updateOnDraw", "drawstart", "getObjectByName", "getObjectById",
   "getObjectsByCustomSearch", "dump", "enableClickToDump", "disableClickToDump",
   "click"} \cup SuppressedEvents

\* C7: no operation of the inspector changes a scene node: the stage's
\* children other than the overlay layer, in order, and every other
\* node's children and fields are the same after it as before.
C7_SceneUntouched ==
  [][op' \in InspectorOps =>
       /\ attrs' = attrs
       /\ \A n \in Nodes : children'[n] = children[n]
       /\ Without(children'[Stage], ContainerId) = Without(children[Stage], ContainerId)]_vars

\* hide() ran while the overlay layer was not the stage's last child and
\* scene nodes were on the stage
C7_Witness ==
  /\ op = "hide"
  /\ Len(children[Stage]) > 1

\* what a primitive shows: its kind, the node it describes, its color, its
\* geometry and its text content, whatever ids the display objects took
Descriptors(prims) ==
  [i \in 1..Len(prims) |->
     [prims[i] EXCEPT !.id = NoNode, !.bg = NoNode,
                      !.lines = [j \in 1..Len(prims[i].lines) |->
                                   [prims[i].lines[j] EXCEPT !.id = NoNode]]]]

\* C8: a show() that directly follows a show() with the same filter, scene,
\* property filters, colors and refresh mode leaves the same sequence of
\* primitive descriptors in the overlay layer, and so does a redraw-driven
\* rebuild that directly follows a rebuild: nothing of the previous one is
\* kept.
C8_RebuildPurity ==
  [][/\ op = "show" /\ op' = "show" /\ filters' = filters =>
          Descriptors(overlay') = Descriptors(overlay)
     /\ op = "drawstart" /\ rebuilds = 1 /\ op' = "drawstart" =>
          Descriptors(overlay') = Descriptors(overlay)]_vars

\* two show() calls in a row with the same filter, live refresh off, left a
\* non-empty overlay
C8_Witness ==
  /\ op = "show" /\ showRun >= 2
  /\ ~updateOnDraw
  /\ overlay # <<>>

\* the child of p on the path down to n (n itself when p is n's parent)
RECURSIVE BranchAt(_, _)
BranchAt(p, n) ==
  IF ParentOf(children, n) = p THEN n ELSE BranchAt(p, ParentOf(children, n))

IndexIn(s, x) == CHOOSE i \in 1..Len(s) : s[i] = x

\* a comes before b in a children-first, left-to-right walk from the stage
Precedes(a, b) ==
  \/ IsAncestor(children, b, a)
  \/ /\ ~IsAncestor(children, a, b)
     /\ \E p \in {Stage} \cup Nodes :
          /\ p = Stage \/ (IsAncestor(children, p, a) /\ IsAncestor(children, p, b))
          /\ BranchAt(p, a) # BranchAt(p, b)
          /\ IndexIn(children[p], BranchAt(p, a)) < IndexIn(children[p], BranchAt(p, b))

\* C9: after a rebuild the primitives of a node come before those of each
\* of its ancestors, and those of an earlier sibling's subtree before those
\* of a later sibling's subtree.
C9_ChildrenBeforeParents ==
  rebuilds > 0 =>
    \A i, j \in 1..Len(overlay) :
      i < j /\ overlay[i].of # overlay[j].of => Precedes(overlay[i].of, overlay[j].of)

\* a rebuild annotated a node, a node in a later sibling's subtree, and
\* their common parent
C9_Witness ==
  /\ rebuilds > 0
  /\ \E i, j, k \in 1..Len(overlay) :
        /\ i < j /\ j < k
        /\ IsAncestor(children, overlay[k].of, overlay[i].of)
        /\ IsAncestor(children, overlay[k].of, overlay[j].of)
        /\ ~IsAncestor(children, overlay[j].of, overlay[i].of)
        /\ ~IsAncestor(children, overlay[i].of, overlay[j].of)
        /\ overlay[i].of # overlay[j].of

Min(a, b) == IF a < b THEN a ELSE b

\* C10: after a rebuild every primitive of a node at nesting depth d has
\* the color table[min(d, L-1)] of the color table of length L.
C10_NestColorClamped ==
  rebuilds > 0 =>
    \A i \in 1..Len(overlay) :
      overlay[i].color
        = nestColors[Min(DepthOf(children, overlay[i].of), Len(nestColors) - 1) + 1]

\* a rebuild colored a node deeper than the table is long and a node that
\* is not
C10_Witness ==
  /\ rebuilds > 0
  /\ \E i, j \in 1..Len(overlay) :
        /\ DepthOf(children, overlay[i].of) >= Len(nestColors)
        /\ DepthOf(children, overlay[j].of) < Len(nestColors) - 1

StructuralKeys == {"bounds", "pos", "regPos", "width", "height", "parentId"}

\* the info containers in the overlay layer
Panels == {i \in 1..Len(overlay) : overlay[i].kind = "si_infoContainer_"}

\* C11 as stated: after a rebuild no line '<key>: <value>' of an info
\* container has a structural key (bounds, pos, regPos, width, height,
\* parentId) as its key, whatever fields the node has; and the id line, when
\* enabled, is the first line and the name line, when enabled, the next.
C11_StructuralKeysNeverInPanel ==
  rebuilds > 0 =>
    \A i \in Panels :
      LET lines == overlay[i].lines
          first == IF "id" \in propFilters THEN 2 ELSE 1
      IN  /\ \A j \in 1..Len(lines) : lines[j].label \notin StructuralKeys
          /\ "id" \in propFilters => lines[1].label = "id"
          /\ "name" \in propFilters => lines[first].label = "name"

\* the primitives of node n in the overlay layer, in order
PrimsOf(n) == SelectSeq(overlay, LAMBDA q : q.of = n)

KindsOf(n) == [i \in 1..Len(PrimsOf(n)) |-> PrimsOf(n)[i].kind]

\* the info panel of n has a line: id, name or parentId is enabled, or an
\* enabled key names a field of n that is not an object
PanelHasLine(n) ==
  \/ propFilters \cap {"id", "name", "parentId"} # {}
  \/ \E i \in 1..Len(ownKeysOf(n)) :
        /\ ownKeysOf(n)[i].key \in propFilters
        /\ ~ownKeysOf(n)[i].underscore
        /\ ~ownKeysOf(n)[i].object

\* what the claim lists for n, key by key
KindsExpected(n) ==
  (IF "bounds" \in propFilters THEN <<"si_bounds_", "si_boundsPos_">> ELSE <<>>)
  \o (IF "pos" \in propFilters THEN <<"si_posMarker_", "si_pos_">> ELSE <<>>)
  \o (IF "regPos" \in propFilters THEN <<"si_posMarker_", "si_regPosText_">> ELSE <<>>)
  \o (IF "width" \in propFilters THEN <<"si_width_">> ELSE <<>>)
  \o (IF "height" \in propFilters THEN <<"si_height_">> ELSE <<>>)
  \o (IF PanelHasLine(n) THEN <<"si_infoContainer_">> ELSE <<>>)

\* C12: after a rebuild a matched, bounded node has, in this order, a
\* rectangle and an origin text iff bounds is enabled, a cross and an x,y
\* text iff pos is, a cross and a regX,regY text iff regPos is, one text
\* iff width is, one text iff height is, and then the info container iff
\* the panel has a line; with pos the only enabled key a child of the stage
\* at (5,5) has exactly a cross at global (5,5) and the text "5.000,5.000".
C12_PrimitivesPerEnabledKey ==
  rebuilds > 0 =>
    \A n \in Descendants(children) :
      MatchesSpec(n, filters) /\ BoundsDefined(n) =>
        /\ KindsOf(n) = KindsExpected(n)
        /\ propFilters = {"pos"} /\ ParentOf(children, n) = Stage
             /\ xOf(n) = 5 * Unit /\ yOf(n) = 5 * Unit =>
               /\ Len(PrimsOf(n)) = 2
               /\ PrimsOf(n)[1].kind = "si_posMarker_"
               /\ PrimsOf(n)[1].at = <<5 * Unit, 5 * Unit>>
               /\ PrimsOf(n)[2].kind = "si_pos_"
               /\ PrimsOf(n)[2].text = "5.000,5.000"

\* a rebuild with pos the only enabled key annotated a child of the stage
\* placed at (5,5)
C12_Witness ==
  /\ rebuilds > 0
  /\ propFilters = {"pos"}
  /\ \E n \in Annotated :
        ParentOf(children, n) = Stage /\ xOf(n) = 5 * Unit /\ yOf(n) = 5 * Unit

\* the width and height labels in the overlay layer
WidthLabels == {i \in 1..Len(overlay) : overlay[i].kind = "si_width_"}

HeightLabels == {i \in 1..Len(overlay) : overlay[i].kind = "si_height_"}

\* C13 as stated: after a rebuild the text of every width label is the
\* width of the node's global rectangle and the text of every height label
\* its height, to 3 decimals, also under scaling.
C13_LabelsShowGlobalSize ==
  rebuilds > 0 =>
    /\ \A i \in WidthLabels :
         overlay[i].text = toFixed(displayBoundsOf(overlay[i].of).width)
    /\ \A i \in HeightLabels :
         overlay[i].text = toFixed(displayBoundsOf(overlay[i].of).height)

\* C13 amended: after a rebuild the text of every width label is the width
\* of the node's bounds in its local coordinate space and the text of every
\* height label their height, to 3 decimals, whatever the scaling.
C13_LabelsShowLocalSize ==
  rebuilds > 0 =>
    /\ \A i \in WidthLabels : overlay[i].text = toFixed(boundsOf(overlay[i].of)[3])
    /\ \A i \in HeightLabels : overlay[i].text = toFixed(boundsOf(overlay[i].of)[4])

\* a rebuild labelled a node whose global rectangle is wider and lower than
\* its local bounds
C13_Witness ==
  /\ rebuilds > 0
  /\ \E i \in WidthLabels : \E j \in HeightLabels :
        /\ overlay[i].of = overlay[j].of
        /\ displayBoundsOf(overlay[i].of).width > boundsOf(overlay[i].of)[3]
        /\ displayBoundsOf(overlay[j].of).height < boundsOf(overlay[j].of)[4]

RECURSIVE Preorder(_)
RECURSIVE PreorderAll(_, _)
\* the objects at and below ref, each before its children, children in
\* list order
Preorder(ref) ==
  <<ref>> \o (IF hasChildren(ref) THEN PreorderAll(childrenOf(ref), 1) ELSE <<>>)

PreorderAll(kids, i) ==
  IF i > Len(kids) THEN <<>> ELSE Preorder(kids[i]) \o PreorderAll(kids, i + 1)

\* the first object of the stage's tree, in that order, for which func
\* holds; the absent value when there is none
FirstHolding(func) ==
  LET hits == SelectSeq(Preorder(Stage), LAMBDA ref : holds(func, ref))
  IN  IF hits = <<>> THEN NoNode ELSE hits[1]

\* C14: getObjectById and getObjectByName (for a name other than the
\* stage's) return the first object in depth-first pre-order, self before
\* children and children in list order, for which the predicate holds, and
\* the absent value, without a fault, when it holds for none.
C14_FindFirstIsPreorder ==
  [][/\ \A id \in IdArgs :
          GetObjectById(id) =>
            result'.nodes = <<FirstHolding(ById(id))>> /\ ~result'.fault
     /\ \A name \in NameArgs :
          ~isStageName(name) /\ GetObjectByName(name) =>
            result'.nodes = <<FirstHolding(ByName(name))>> /\ ~result'.fault]_vars

\* a search by name returned a node although a node below it has the same
\* name
C14_Witness ==
  /\ op = "getObjectByName"
  /\ result.nodes # <<NoNode>>
  /\ result.nodes[1] \in Nodes
  /\ \E n \in Nodes :
        /\ IsAncestor(children, result.nodes[1], n)
        /\ attrs[n].named /\ attrs[n].name = attrs[result.nodes[1]].name

\* a search found nothing and returned the absent value
C14_WitnessMiss ==
  /\ op = "getObjectById"
  /\ result.nodes = <<NoNode>>
  /\ ~result.fault

\* the objects above ref in the stage's tree
AncestorsOf(ref) ==
  IF IsPrimitive(ref)
    THEN {Stage, ContainerId}
         \cup {overlay[i].id : i \in {k \in 1..Len(overlay) :
                                        ref \in Range(infoChildren(overlay[k]))}}
  ELSE IF ref = ContainerId THEN {Stage}
  ELSE {a \in {Stage} \cup Nodes : IsAncestor(children, a, ref)}

\* C15: getObjectsByCustomSearch returns, in depth-first pre-order from the
\* stage, exactly the objects for which the predicate holds and that have
\* no ancestor for which it holds.
C15_FindAllStopsAtMatches ==
  [][\A func \in FuncArgs :
       GetObjectsByCustomSearch(func) =>
         result'.nodes
           = SelectSeq(Preorder(Stage),
                       LAMBDA ref : /\ holds(func, ref)
                                    /\ \A a \in AncestorsOf(ref) : ~holds(func, a))]_vars

\* a custom search returned two siblings in child order, one of which has a
\* child for which the predicate holds too
C15_Witness ==
  /\ op = "getObjectsByCustomSearch"
  /\ \E i, j \in 1..Len(result.nodes) :
        /\ i < j
        /\ result.nodes[i] \in Nodes /\ result.nodes[j] \in Nodes
        /\ ParentOf(children, result.nodes[i]) = ParentOf(children, result.nodes[j])
        /\ \E n \in Nodes :
              /\ ParentOf(children, n) = result.nodes[j]
              /\ n >= 2
              /\ n \notin Range(result.nodes)
  /\ \A i \in 1..Len(result.nodes) : result.nodes[i] >= 2

\* C16 as stated: a dump with a filter array completes without a fault and
\* emits an expanded report for every entry, its reference being the absent
\* value when the entry's id or name matches no node.
C16_DumpMissReportsAbsent ==
  [][\A objects \in DumpArgs :
       objects.present /\ Dump(objects) =>
         /\ ~result'.fault
         /\ \A i \in 1..Len(objects.list) :
              Report(dumpTarget(objects.list[i]), TRUE) \in Range(result'.reports)]_vars

\* the expanded (top-level) reports of a dump
TopReports(reports) == SelectSeq(reports, LAMBDA r : r.expand)

\* C17 as stated: a dump with a filter array that completes emits exactly
\* one expanded report for each node of the stage's tree that an entry
\* matches by id, name or identity, so one for every node with a filtered
\* name; a dump without a filter emits one expanded report, for the stage;
\* every child of a reported node has a collapsed report.
C17_DumpReportsEveryMatch ==
  [][\A objects \in DumpArgs :
       Dump(objects) /\ ~result'.fault =>
         LET top == TopReports(result'.reports)
             matching == {ref \in Range(Preorder(Stage)) \ {Stage} :
                            \E i \in 1..Len(objects.list) :
                               \/ objects.list[i].t = "number" /\ objects.list[i].n = ref
                               \/ objects.list[i].t = "string"
                                    /\ nameIs(ref, objects.list[i].s)
                               \/ objects.list[i].t = "object" /\ objects.list[i].n = ref}
         IN  /\ objects.present =>
                  /\ {top[i].ref : i \in 1..Len(top)} = matching
                  /\ Len(top) = Cardinality(matching)
             /\ ~objects.present => top = <<Report(Stage, TRUE)>>
             /\ \A i \in 1..Len(result'.reports) :
                  \A c \in Range(childrenOf(result'.reports[i].ref)) \ {ContainerId} :
                    Report(c, FALSE) \in Range(result'.reports)]_vars

\* C18: while click-to-dump is enabled, however often it was enabled and
\* disabled before, a click runs dump exactly once and its propagation is
\* stopped, and so is that of every mousedown, pressup, dblclick, mouseout,
\* mouseover and pressmove; while it is disabled a click runs no dump and
\* the inspector stops no event.
C18_OneDumpPerClick ==
  /\ op = "click" =>
       IF dumpListeners
         THEN result.dumps = 1 /\ result.stopped
         ELSE result.dumps = 0 /\ ~result.stopped
  /\ op \in SuppressedEvents => result.stopped = dumpListeners

\* a click on a display object was dumped once and stopped while
\* click-to-dump was enabled
C18_Witness ==
  /\ op = "click"
  /\ dumpListeners
  /\ result.dumps = 1 /\ result.stopped
  /\ result.reports # <<>>

\* C19 as stated: no search returns the overlay layer or a primitive inside
\* it, whatever name, id or predicate it is given, and no dump reports the
\* overlay layer.
C19_OverlayExcludedFromTraversals ==
  /\ op \in {"getObjectByName", "getObjectById", "getObjectsByCustomSearch"} =>
       \A i \in 1..Len(result.nodes) :
         result.nodes[i] # ContainerId /\ ~IsPrimitive(result.nodes[i])
  /\ op \in {"dump", "click"} =>
       \A i \in 1..Len(result.reports) : result.reports[i].ref # ContainerId

====
